---- MODULE Spec2Model ----
(***************************************************************************)
(* A model of the text pipeline of YTLLM:                                  *)
(*   src/src/processing/text_processor.py  clean_text, chunk_text,         *)
(*                                         process_video_subtitles         *)
(*   src/src/processing/embedding.py       the embedding cache,            *)
(*                                         generate_embeddings,            *)
(*                                         store_embeddings,               *)
(*                                         generate_dummy_embedding        *)
(*   src/src/retrieval/vector_store.py     search_vector_store,            *)
(*                                         add_chunks_to_vector_store      *)
(*   src/src/ingestion/ingest.py           ingest_channel, ingest_video    *)
(*   src/src/utils/database.py             get_db_session                  *)
(* A Python str is a sequence of one-character strings.  Positions are     *)
(* Python's 0-based offsets; the character at offset p of s is s[p + 1].   *)
(***************************************************************************)
EXTENDS Integers, Sequences, FiniteSets, TLC

VARIABLES
    text,        \* chunk_text: its argument text
    chunk_size,  \* chunk_text: its argument chunk_size
    overlap,     \* chunk_text: its argument overlap
    start,       \* chunk_text: the local start
    chunks,      \* chunk_text: the list chunks, each entry with the slice it was cut from
    pc,          \* the position of the running function
    cl_in,       \* clean_text: the argument of the first call
    cl_text,     \* clean_text: the local text
    cl_first,    \* clean_text: what the first call returned
    cl_pass,     \* clean_text: 1 in the first call, 2 in the call on its result
    subtitles,       \* process_video_subtitles: its argument
    total_text,      \* process_video_subtitles: the local total_text
    char_positions,  \* process_video_subtitles: the local char_positions
    current_pos,     \* process_video_subtitles: the local current_pos
    out,             \* process_video_subtitles: the list it returns (its local chunks)
    DEEPSEEK_API_KEY,  \* config: whether the key of the primary backend is set
    OPENAI_API_KEY,    \* config: whether the key of the secondary backend is set
    cache,             \* the files of EMBEDDING_CACHE_DIR: text -> stored vector or None
    requests,          \* the requests posted to the backends, in order
    texts,             \* generate_embeddings: its argument
    embeddings,        \* generate_embeddings: the local embeddings
    batch_start,       \* generate_embeddings: the loop variable i of the batch loop
    batch_embeddings,  \* generate_embeddings: the local batch_embeddings
    texts_to_embed,    \* generate_embeddings: the local texts_to_embed
    indices_to_embed,  \* generate_embeddings: the local indices_to_embed
    api_embeddings,    \* generate_embeddings: api_embeddings; all_embeddings of
                       \* generate_openai_embeddings; dummy_embeddings
    returned,          \* what generate_embeddings returned
    stored,            \* store_embeddings: its argument chunks, updated in place
    raised,            \* the exception store_embeddings raised, or "none"
    np_state,          \* numpy: the state of the global generator of np.random
    dummy_text,        \* generate_dummy_embedding: its argument text
    dummy_log,         \* the calls of generate_dummy_embedding that returned, in order
    puts,              \* the calls save_embedding_to_cache(text, vector) made, in order
    got,               \* the last call of get_cached_embedding: its text, what it
                       \* returned, and the number of saves made before it
    index,             \* the collection: its entries in the order they were added
    query,             \* search_vector_store: its argument query
    top_k,             \* search_vector_store: its argument top_k
    query_embedding,   \* search_vector_store: the local query_embedding
    queries,           \* the calls of collection.query, in order, with their outcome
    results,           \* search_vector_store: the local results
    search_chunks,     \* search_vector_store: the local chunks, the list it returns
    search_error,      \* the exception search_vector_store raised, or "none"
    video_ids,         \* ingest_channel: the local video_ids
    video_i,           \* ingest_channel: how many ids the loop of line 340 has taken
    success_count,     \* ingest_channel: the local success_count
    error_count,       \* ingest_channel: the local error_count
    attempts,          \* the calls of ingest_video the loop made, in order, with how
                       \* each one ended
    runs,              \* the number of calls of ingest_channel so far
    video_id,          \* ingest_video: its argument video_id
    chunks_with_embeddings,  \* ingest_video: the local chunks_with_embeddings, each
                             \* chunk by its text
    text_chunks,       \* the committed rows of the table text_chunks
    tx_rows,           \* the rows of text_chunks as the open transaction sees them
    pending,           \* the objects given to session.add and not yet inserted
    flushed,           \* the number of rows the open transaction has inserted
    collection,        \* the collection of the vector store: its ids with their
                       \* metadata source_id
    cache_file,        \* the file of one text in EMBEDDING_CACHE_DIR: whether it
                       \* exists, and its content in blocks of the write buffer
    savers,            \* the calls of save_embedding_to_cache in progress, by
                       \* process: the vector and the offset of the open file
    saved,             \* the vectors the calls of save_embedding_to_cache were given
    reads              \* what the calls of get_cached_embedding returned, in order

vars == <<text, chunk_size, overlap, start, chunks, pc, cl_in, cl_text, cl_first, cl_pass,
          subtitles, total_text, char_positions, current_pos, out,
          DEEPSEEK_API_KEY, OPENAI_API_KEY, cache, requests, texts, embeddings,
          batch_start, batch_embeddings, texts_to_embed, indices_to_embed,
          api_embeddings, returned, stored, raised, np_state, dummy_text, dummy_log,
          puts, got, index, query, top_k, query_embedding, queries, results, search_chunks,
          search_error, video_ids, video_i, success_count, error_count, attempts, runs,
          video_id, chunks_with_embeddings, text_chunks, tx_rows, pending, flushed,
          collection, cache_file, savers, saved, reads>>

chunkVars == <<text, chunk_size, overlap, start, chunks>>
cleanVars == <<cl_in, cl_text, cl_first, cl_pass>>
subsVars == <<subtitles, total_text, char_positions, current_pos, out>>
configVars == <<DEEPSEEK_API_KEY, OPENAI_API_KEY>>
genLocals == <<embeddings, batch_start, batch_embeddings, texts_to_embed, indices_to_embed,
               api_embeddings>>
embedVars == <<configVars, cache, requests, texts, genLocals, returned, stored, raised>>
dummyVars == <<np_state, dummy_text, dummy_log>>
cacheOpVars == <<puts, got>>
searchVars == <<index, query, top_k, query_embedding, queries, results, search_chunks,
                search_error>>
channelVars == <<video_ids, video_i, success_count, error_count, attempts, runs>>
storeVars == <<text_chunks, tx_rows, pending, flushed, collection>>
ingestVars == <<channelVars, video_id, chunks_with_embeddings, storeVars>>
fileVars == <<cache_file, savers, saved, reads>>
lateVars == <<ingestVars, fileVars>>
restVars == <<dummyVars, cacheOpVars, searchVars, lateVars>>
notChunk == <<cleanVars, subsVars, embedVars, restVars>>
notClean == <<chunkVars, subsVars, embedVars, restVars>>
notSubs == <<cleanVars, embedVars, restVars>>
notEmbed == <<chunkVars, cleanVars, subsVars, restVars>>
notDummy == <<chunkVars, cleanVars, subsVars, embedVars, cacheOpVars, searchVars, lateVars>>
notCache == <<chunkVars, cleanVars, subsVars, configVars, requests, texts, genLocals, returned,
              stored, raised, dummyVars, searchVars, lateVars>>
notSearch == <<chunkVars, cleanVars, subsVars, embedVars, dummyVars, cacheOpVars, lateVars>>
notIngest == <<chunkVars, cleanVars, subsVars, embedVars, dummyVars, cacheOpVars, searchVars,
               fileVars>>
notFile == <<chunkVars, cleanVars, subsVars, embedVars, dummyVars, cacheOpVars, searchVars,
             ingestVars>>

(***************************************************************************)
(* Bounds of the model.                                                    *)
(***************************************************************************)
MaxLen == 5
MaxSize == 3
MaxCleanLen == 5
MaxSubs == 4
\* process_video_subtitles calls chunk_text with its defaults, chunk_size = 1000
\* and overlap = 200; the model scales them to strings a few characters long
DefaultChunkSize == 5
DefaultOverlap == 1
MaxTexts == 4
MaxCalls == 4
MaxPuts == 3
MaxHits == 3
MaxTopK == 3
MaxDistance == 1

(***************************************************************************)
(* Constants of the program.                                               *)
(***************************************************************************)
EMBEDDING_VECTOR_SIZE == 1536
DEEPSEEK_BATCH_SIZE == 5
OPENAI_BATCH_SIZE == 20

(***************************************************************************)
(* Characters.  "a" and "b" stand for the word characters (\w), " " and    *)
(* "\n" for the whitespace (\s), "." for the punctuation the second        *)
(* pattern of clean_text keeps, "#" for every character it removes.        *)
(***************************************************************************)
Letters == {"a", "b"}
Whitespace == {" ", "\n"}
ChunkAlphabet == {"a", " ", "."}
CleanAlphabet == {"a", " ", "\n", "#"}

SeqsUpTo(S, n) == UNION {[1..k -> S] : k \in 0..n}

Max(S) == CHOOSE x \in S : \A y \in S : y <= x
Min(S) == CHOOSE x \in S : \A y \in S : x <= y

\* re's \s
IsSpace(c) == c \in Whitespace

\* the complement of the class [^\w\s\.,;:!?\'\"()\[\]\{\}]
IsKept(c) == c \in Letters \/ IsSpace(c) \/ c = "."

\* s[a:b] for 0 <= a and b <= len(s)
Slice(s, a, b) == IF a >= b THEN <<>> ELSE SubSeq(s, a + 1, b)

\* str.strip()
Strip(s) ==
    LET kept == {i \in 1..Len(s) : ~IsSpace(s[i])}
    IN  IF kept = {} THEN <<>> ELSE SubSeq(s, Min(kept), Max(kept))

\* s.rfind(pat, a, b): the highest offset i with a <= i, i + len(pat) <= b and
\* s[i:i+len(pat)] == pat, or -1
RFind(s, pat, a, b) ==
    LET hi == IF b < Len(s) THEN b ELSE Len(s)
        at == {i \in a..(hi - Len(pat)) : \A k \in 1..Len(pat) : s[i + k] = pat[k]}
    IN  IF at = {} THEN -1 ELSE Max(at)

\* s.find(pat, a): the lowest offset i >= a with s[i:i+len(pat)] == pat, or -1
Find(s, pat, a) ==
    LET at == {i \in a..(Len(s) - Len(pat)) : \A k \in 1..Len(pat) : s[i + k] = pat[k]}
    IN  IF at = {} THEN -1 ELSE Min(at)

(***************************************************************************)
(* clean_text                                                              *)
(***************************************************************************)
\* re.sub(r'\s+', ' ', text)
CollapseSpaces(s) ==
    LET F[i \in 0..Len(s)] ==
            IF i = 0 THEN <<>>
            ELSE IF IsSpace(s[i])
                 THEN IF i > 1 /\ IsSpace(s[i - 1]) THEN F[i - 1] ELSE Append(F[i - 1], " ")
                 ELSE Append(F[i - 1], s[i])
    IN  F[Len(s)]

\* re.sub(r'[^\w\s\.,;:!?\'\"()\[\]\{\}]', '', text)
RemoveSpecial(s) == SelectSeq(s, IsKept)

clean_text(s) == Strip(RemoveSpecial(CollapseSpaces(s)))

(***************************************************************************)
(* chunk_text                                                              *)
(***************************************************************************)
SentenceEnd(s, a, b) == RFind(s, <<".", " ">>, a, b)
LastSpace(s, a, b) == RFind(s, <<" ">>, a, b)

\* the cut at the period of the sentence terminator, the period left out
CutPoint_ExcludePeriod(s, size, a) ==
    IF SentenceEnd(s, a, a + size) # -1 THEN SentenceEnd(s, a, a + size)
    ELSE IF LastSpace(s, a, a + size) # -1 THEN LastSpace(s, a, a + size)
    ELSE a + size

\* the end of the chunk that starts at a, when a + size < len(s)
CutPoint(s, size, a) ==
    IF SentenceEnd(s, a, a + size) # -1 THEN SentenceEnd(s, a, a + size) + 1
    ELSE IF LastSpace(s, a, a + size) # -1 THEN LastSpace(s, a, a + size)
    ELSE a + size

NextStart_Forward(end, ov) == IF end > ov THEN end + ov ELSE end

\* start = end - overlap if end > overlap else end
NextStart(end, ov) == IF end > ov THEN end - ov ELSE end

\* an entry of chunks: the string appended, and the slice [from, to) it was cut from
Chunk(s, a, b, stripped) ==
    [text |-> IF stripped THEN Strip(Slice(s, a, b)) ELSE Slice(s, a, b), from |-> a, to |-> b]

\* The loop is entered with start = 0 < len(text) and every cut point is below
\* len(text), so the test of the while statement never fails: the loop is left
\* by its break only.
\* A run that terminates enters the loop with a start it has not had before, and
\* start < len(text), so it appends at most len(text) chunks; a run that has
\* appended more is in a cycle, and the model follows it no further.
Running == Len(chunks) <= Len(text)

ChunkEmpty ==
    /\ pc = "chunk_entry"
    /\ text = <<>>
    /\ pc' = "chunk_done"
    /\ UNCHANGED <<chunkVars, notChunk>>

ChunkShort_Stripped ==
    /\ pc = "chunk_entry"
    /\ text # <<>>
    /\ Len(text) <= chunk_size
    /\ chunks' = <<Chunk(text, 0, Len(text), TRUE)>>
    /\ pc' = "chunk_done"
    /\ UNCHANGED <<text, chunk_size, overlap, start, notChunk>>

ChunkShort ==
    /\ pc = "chunk_entry"
    /\ text # <<>>
    /\ Len(text) <= chunk_size
    /\ chunks' = <<Chunk(text, 0, Len(text), FALSE)>>
    /\ pc' = "chunk_done"
    /\ UNCHANGED <<text, chunk_size, overlap, start, notChunk>>

ChunkEnter ==
    /\ pc = "chunk_entry"
    /\ text # <<>>
    /\ Len(text) > chunk_size
    /\ pc' = "chunk_loop"
    /\ UNCHANGED <<chunkVars, notChunk>>

ChunkLast ==
    /\ pc = "chunk_loop"
    /\ Running
    /\ start < Len(text)
    /\ start + chunk_size >= Len(text)
    /\ chunks' = Append(chunks, Chunk(text, start, Len(text), FALSE))
    /\ pc' = "chunk_done"
    /\ UNCHANGED <<text, chunk_size, overlap, start, notChunk>>

ChunkCut(end) ==
    /\ chunks' = Append(chunks, Chunk(text, start, end, TRUE))
    /\ start' = NextStart(end, overlap)
    /\ UNCHANGED <<text, chunk_size, overlap, pc, notChunk>>

ChunkSentence ==
    /\ pc = "chunk_loop"
    /\ Running
    /\ start < Len(text)
    /\ start + chunk_size < Len(text)
    /\ SentenceEnd(text, start, start + chunk_size) # -1
    /\ ChunkCut(CutPoint(text, chunk_size, start))

ChunkSpace ==
    /\ pc = "chunk_loop"
    /\ Running
    /\ start < Len(text)
    /\ start + chunk_size < Len(text)
    /\ SentenceEnd(text, start, start + chunk_size) = -1
    /\ LastSpace(text, start, start + chunk_size) # -1
    /\ ChunkCut(CutPoint(text, chunk_size, start))

ChunkHard ==
    /\ pc = "chunk_loop"
    /\ Running
    /\ start < Len(text)
    /\ start + chunk_size < Len(text)
    /\ SentenceEnd(text, start, start + chunk_size) = -1
    /\ LastSpace(text, start, start + chunk_size) = -1
    /\ ChunkCut(CutPoint(text, chunk_size, start))

CleanIdle == cl_in = <<>> /\ cl_text = <<>> /\ cl_first = <<>> /\ cl_pass = 0
EmbedIdle ==
    /\ DEEPSEEK_API_KEY = FALSE
    /\ OPENAI_API_KEY = FALSE
    /\ cache = <<>>
    /\ requests = <<>>
    /\ texts = <<>>
    /\ embeddings = <<>>
    /\ batch_start = 0
    /\ batch_embeddings = <<>>
    /\ texts_to_embed = <<>>
    /\ indices_to_embed = <<>>
    /\ api_embeddings = <<>>
    /\ returned = <<>>
    /\ stored = <<>>
    /\ raised = "none"

SubsIdle ==
    /\ subtitles = <<>>
    /\ total_text = <<>>
    /\ char_positions = <<>>
    /\ current_pos = 0
    /\ out = <<>>

DummyIdle == np_state = <<>> /\ dummy_text = "" /\ dummy_log = <<>>
CacheOpIdle ==
    /\ puts = <<>>
    /\ got = [text |-> "", result |-> [of |-> "", by |-> "None", len |-> 0], at |-> 0]
SearchIdle ==
    /\ index = <<>>
    /\ query = ""
    /\ top_k = 0
    /\ query_embedding = [of |-> "", by |-> "None", len |-> 0]
    /\ queries = <<>>
    /\ results = [documents |-> <<>>, metadatas |-> <<>>, distances |-> <<>>]
    /\ search_chunks = <<>>
    /\ search_error = "none"
IngestIdle ==
    /\ video_ids = <<>>
    /\ video_i = 0
    /\ success_count = 0
    /\ error_count = 0
    /\ attempts = <<>>
    /\ runs = 0
    /\ video_id = ""
    /\ chunks_with_embeddings = <<>>
    /\ text_chunks = {}
    /\ tx_rows = {}
    /\ pending = <<>>
    /\ flushed = 0
    /\ collection = {}
FileIdle ==
    /\ cache_file = [exists |-> FALSE, data |-> <<>>]
    /\ savers = <<>>
    /\ saved = {}
    /\ reads = <<>>
LateIdle == IngestIdle /\ FileIdle
RestIdle == DummyIdle /\ CacheOpIdle /\ SearchIdle /\ LateIdle

InitChunk ==
    /\ text \in SeqsUpTo(ChunkAlphabet, MaxLen)
    /\ chunk_size \in 1..MaxSize
    /\ overlap \in 0..(chunk_size - 1)
    /\ start = 0
    /\ chunks = <<>>
    /\ pc = "chunk_entry"
    /\ CleanIdle
    /\ SubsIdle
    /\ EmbedIdle
    /\ RestIdle

NextChunk ==
    \/ ChunkEmpty
    \/ ChunkShort
    \/ ChunkEnter
    \/ ChunkLast
    \/ ChunkSentence
    \/ ChunkSpace
    \/ ChunkHard

SpecChunk == InitChunk /\ [][NextChunk]_vars

(***************************************************************************)
(* clean_text, statement by statement, applied to a string and then to     *)
(* what it returned.                                                       *)
(***************************************************************************)
ChunkIdle == text = <<>> /\ chunk_size = 0 /\ overlap = 0 /\ start = 0 /\ chunks = <<>>

CleanCollapse ==
    /\ pc = "clean_collapse"
    /\ cl_text' = CollapseSpaces(cl_text)
    /\ pc' = "clean_remove"
    /\ UNCHANGED <<cl_in, cl_first, cl_pass, notClean>>

CleanRemove ==
    /\ pc = "clean_remove"
    /\ cl_text' = RemoveSpecial(cl_text)
    /\ pc' = "clean_strip"
    /\ UNCHANGED <<cl_in, cl_first, cl_pass, notClean>>

CleanStrip ==
    /\ pc = "clean_strip"
    /\ cl_text' = Strip(cl_text)
    /\ pc' = "clean_return"
    /\ UNCHANGED <<cl_in, cl_first, cl_pass, notClean>>

\* the caller passes the returned string to clean_text again
CleanAgain ==
    /\ pc = "clean_return"
    /\ cl_pass = 1
    /\ cl_first' = cl_text
    /\ cl_pass' = 2
    /\ pc' = "clean_collapse"
    /\ UNCHANGED <<cl_in, cl_text, notClean>>

InitClean ==
    /\ cl_in \in SeqsUpTo(CleanAlphabet, MaxCleanLen)
    /\ cl_text = cl_in
    /\ cl_first = <<>>
    /\ cl_pass = 1
    /\ pc = "clean_collapse"
    /\ ChunkIdle
    /\ SubsIdle
    /\ EmbedIdle
    /\ RestIdle

NextClean ==
    \/ CleanCollapse
    \/ CleanRemove
    \/ CleanStrip
    \/ CleanAgain

SpecClean == InitClean /\ [][NextClean]_vars

(***************************************************************************)
(* process_video_subtitles                                                 *)
(***************************************************************************)
\* the subtitle texts of the model: plain words, a word pair, a sentence end, a
\* text with a character clean_text removes, a word longer than a chunk
SubTexts ==
    { <<"a", "a", "a">>, <<"b">>, <<"a", " ", "b">>, <<"a", ".">>, <<"a", "#">>,
      <<"a", "a", "a", "a", "a", "a">> }

\* the k-th subtitle is shown from second 2(k-1) to second 2k-1
Subtitle(t, k) == [text |-> t, start_time |-> 2 * (k - 1), end_time |-> 2 * k - 1]

\* " ".join([sub["text"] for sub in subtitles])
JoinTexts(subs) ==
    LET F[i \in 0..Len(subs)] ==
            IF i = 0 THEN <<>>
            ELSE IF i = 1 THEN subs[1].text
            ELSE F[i - 1] \o <<" ">> \o subs[i].text
    IN  F[Len(subs)]

\* the loop that fills char_positions
CharPositions(subs) ==
    LET pos[i \in 1..Len(subs)] ==
            IF i = 1 THEN 0 ELSE pos[i - 1] + Len(subs[i - 1].text) + 1
    IN  [i \in 1..Len(subs) |->
            [start |-> pos[i], end |-> pos[i] + Len(subs[i].text),
             start_time |-> subs[i].start_time, end_time |-> subs[i].end_time]]

\* the subtitles whose span shares a character with [a, b): touching is no overlap
OverlappingSubs_Strict(cps, a, b) ==
    {k \in 1..Len(cps) : cps[k].start < b /\ cps[k].end > a}

\* overlapping_subs, as indices of char_positions
OverlappingSubs(cps, a, b) ==
    {k \in 1..Len(cps) : cps[k].start <= b /\ cps[k].end >= a}

ChunkStartTime_NoFallback(subs, cps, a, b) ==
    IF OverlappingSubs(cps, a, b) # {}
    THEN Min({cps[k].start_time : k \in OverlappingSubs(cps, a, b)})
    ELSE -1

ChunkStartTime(subs, cps, a, b) ==
    IF OverlappingSubs(cps, a, b) # {}
    THEN Min({cps[k].start_time : k \in OverlappingSubs(cps, a, b)})
    ELSE IF subs # <<>> THEN subs[1].start_time ELSE 0

ChunkEndTime(subs, cps, a, b) ==
    IF OverlappingSubs(cps, a, b) # {}
    THEN Max({cps[k].end_time : k \in OverlappingSubs(cps, a, b)})
    ELSE IF subs # <<>> THEN subs[Len(subs)].end_time ELSE 0

\* lines 89-95: combine, clean, and call chunk_text with its default sizes
SubsClean ==
    /\ pc = "subs_entry"
    /\ text' = clean_text(JoinTexts(subtitles))
    /\ chunk_size' = DefaultChunkSize
    /\ overlap' = DefaultOverlap
    /\ start' = 0
    /\ chunks' = <<>>
    /\ pc' = "chunk_entry"
    /\ UNCHANGED <<subsVars, notSubs>>

\* lines 98-115, once chunk_text has returned
SubsPositions ==
    /\ pc = "chunk_done"
    /\ char_positions' = CharPositions(subtitles)
    /\ total_text' = JoinTexts(subtitles)
    /\ current_pos' = 0
    /\ out' = <<>>
    /\ pc' = "subs_loop"
    /\ UNCHANGED <<subtitles, chunkVars, notSubs>>

\* lines 122-146 for the chunk at chunk_start_pos
SubsMap(chunk_start_pos) ==
    LET content == chunks[Len(out) + 1].text
        chunk_end_pos == chunk_start_pos + Len(content)
    IN  /\ current_pos' = chunk_end_pos
        /\ out' = Append(out,
               [text |-> content,
                chunk_index |-> Len(out),
                start_time |-> ChunkStartTime(subtitles, char_positions,
                                              chunk_start_pos, chunk_end_pos),
                end_time |-> ChunkEndTime(subtitles, char_positions,
                                          chunk_start_pos, chunk_end_pos),
                start_pos |-> chunk_start_pos,
                end_pos |-> chunk_end_pos])
        /\ UNCHANGED <<subtitles, total_text, char_positions, pc, chunkVars, notSubs>>

\* the chunk is found in total_text at or after current_pos
SubsMapFound ==
    /\ pc = "subs_loop"
    /\ Len(out) < Len(chunks)
    /\ Find(total_text, chunks[Len(out) + 1].text, current_pos) # -1
    /\ SubsMap(Find(total_text, chunks[Len(out) + 1].text, current_pos))

\* it is not: chunk_start_pos = current_pos
SubsMapApprox ==
    /\ pc = "subs_loop"
    /\ Len(out) < Len(chunks)
    /\ Find(total_text, chunks[Len(out) + 1].text, current_pos) = -1
    /\ SubsMap(current_pos)

SubsReturn ==
    /\ pc = "subs_loop"
    /\ Len(out) = Len(chunks)
    /\ pc' = "subs_done"
    /\ UNCHANGED <<subsVars, chunkVars, notSubs>>

InitSubs ==
    /\ \E n \in 0..MaxSubs : \E ts \in [1..n -> SubTexts] :
           subtitles = [k \in 1..n |-> Subtitle(ts[k], k)]
    /\ total_text = <<>>
    /\ char_positions = <<>>
    /\ current_pos = 0
    /\ out = <<>>
    /\ pc = "subs_entry"
    /\ ChunkIdle
    /\ CleanIdle
    /\ EmbedIdle
    /\ RestIdle

NextSubs ==
    \/ SubsClean
    \/ ChunkEmpty
    \/ ChunkShort
    \/ ChunkEnter
    \/ ChunkLast
    \/ ChunkSentence
    \/ ChunkSpace
    \/ ChunkHard
    \/ SubsPositions
    \/ SubsMapFound
    \/ SubsMapApprox
    \/ SubsReturn

SpecSubs == InitSubs /\ [][NextSubs]_vars

(***************************************************************************)
(* The embedding cache, generate_embeddings and store_embeddings.          *)
(* A text is named by a short string; the key of its cache file, the md5   *)
(* of the text, is the text itself.  A vector is the record of the text it *)
(* embeds, the code that computed it and its length.                       *)
(***************************************************************************)
EmbedTexts == {"x", "y"}

\* Python's None, as an element of a list of vectors
None == [of |-> "", by |-> "None", len |-> 0]

generate_dummy_embedding(t) == [of |-> t, by |-> "dummy", len |-> EMBEDDING_VECTOR_SIZE]

\* a vector written when the vector size was another one
StaleVector(t) == [of |-> t, by |-> "dummy", len |-> EMBEDDING_VECTOR_SIZE \div 2]

\* the lengths of the vectors a response of the secondary backend may hold
BackendSizes == {EMBEDDING_VECTOR_SIZE, EMBEDDING_VECTOR_SIZE \div 2}

OpenAIVector(t, n) == [of |-> t, by |-> "openai", len |-> n]

\* the stored vector whatever its length
get_cached_embedding_AnySize(c, t) == c[t]

get_cached_embedding(c, t) ==
    IF c[t] = None THEN None
    ELSE IF c[t].len # EMBEDDING_VECTOR_SIZE THEN None
    ELSE c[t]

\* a cache whose entries are written once: a later save of the text is dropped
save_embedding_to_cache_WriteOnce(c, t, v) == IF c[t] = None THEN [c EXCEPT ![t] = v] ELSE c

save_embedding_to_cache(c, t, v) == [c EXCEPT ![t] = v]

\* saving the vectors vs of the texts ts, in order
SaveAll(c, ts, vs) ==
    LET F[k \in 0..Len(ts)] ==
            IF k = 0 THEN c ELSE save_embedding_to_cache(F[k - 1], ts[k], vs[k])
    IN  F[Len(ts)]

\* texts[i:i+n]
Batch(ts, i, n) == Slice(ts, i, IF i + n < Len(ts) THEN i + n ELSE Len(ts))

IsVector(v) == v # None

\* lines 191-197: the cached vectors of the batch, in the order found
CachedOfBatch(c, batch) ==
    SelectSeq([j \in 1..Len(batch) |-> get_cached_embedding(c, batch[j])], IsVector)

\* the positions j of the batch whose text has no cached vector, ascending
UncachedIndices(c, batch) ==
    LET F[j \in 0..Len(batch)] ==
            IF j = 0 THEN <<>>
            ELSE IF get_cached_embedding(c, batch[j]) = None
                 THEN Append(F[j - 1], j - 1)
                 ELSE F[j - 1]
    IN  F[Len(batch)]

\* lines 236-238 for one (idx, emb)
MergeOne(be, idx, emb) ==
    LET padded == IF Len(be) <= idx
                  THEN be \o [j \in 1..(idx + 1 - Len(be)) |-> None]
                  ELSE be
    IN  [padded EXCEPT ![idx + 1] = emb]

\* lines 235-238: the merge of the cached and the computed vectors
Merge(be, indices, api) ==
    LET F[k \in 0..Len(indices)] ==
            IF k = 0 THEN be ELSE MergeOne(F[k - 1], indices[k], api[k])
    IN  F[Len(indices)]

Request(backend, input) == [to |-> backend, input |-> input]

\* line 157
GenEmpty ==
    /\ pc = "gen_entry"
    /\ texts = <<>>
    /\ returned' = <<>>
    /\ pc' = "gen_done"
    /\ UNCHANGED <<configVars, cache, requests, texts, genLocals, stored, raised, notEmbed>>

\* without the key of the primary backend, straight to the local fallback
GenNoKey_ToDummy ==
    /\ pc = "gen_entry"
    /\ texts # <<>>
    /\ ~DEEPSEEK_API_KEY
    /\ api_embeddings' = <<>>
    /\ pc' = "dummy"
    /\ UNCHANGED <<configVars, cache, requests, texts, embeddings, batch_start,
                   batch_embeddings, texts_to_embed, indices_to_embed, returned, stored,
                   raised, notEmbed>>

\* lines 164-167: no key of the primary backend, generate_openai_embeddings(texts)
GenNoKey ==
    /\ pc = "gen_entry"
    /\ texts # <<>>
    /\ ~DEEPSEEK_API_KEY
    /\ api_embeddings' = <<>>
    /\ pc' = "openai"
    /\ UNCHANGED <<configVars, cache, requests, texts, embeddings, batch_start,
                   batch_embeddings, texts_to_embed, indices_to_embed, returned, stored,
                   raised, notEmbed>>

\* lines 173-183: the primary backend
GenPrimary ==
    /\ pc = "gen_entry"
    /\ texts # <<>>
    /\ DEEPSEEK_API_KEY
    /\ embeddings' = <<>>
    /\ batch_start' = 0
    /\ pc' = "ds_batch"
    /\ UNCHANGED <<configVars, cache, requests, texts, batch_embeddings, texts_to_embed,
                   indices_to_embed, api_embeddings, returned, stored, raised, notEmbed>>

\* lines 184-200 and 240: every text of the batch has a cached vector
DsBatchCached ==
    LET batch == Batch(texts, batch_start, DEEPSEEK_BATCH_SIZE)
    IN  /\ pc = "ds_batch"
        /\ batch_start < Len(texts)
        /\ UncachedIndices(cache, batch) = <<>>
        /\ batch_embeddings' = CachedOfBatch(cache, batch)
        /\ texts_to_embed' = <<>>
        /\ indices_to_embed' = <<>>
        /\ embeddings' = embeddings \o CachedOfBatch(cache, batch)
        /\ batch_start' = batch_start + DEEPSEEK_BATCH_SIZE
        /\ UNCHANGED <<configVars, cache, requests, texts, api_embeddings, returned, stored,
                       raised, pc, notEmbed>>

\* lines 184-202: some text of the batch has none
DsBatchUncached ==
    LET batch == Batch(texts, batch_start, DEEPSEEK_BATCH_SIZE)
        idx == UncachedIndices(cache, batch)
    IN  /\ pc = "ds_batch"
        /\ batch_start < Len(texts)
        /\ idx # <<>>
        /\ batch_embeddings' = CachedOfBatch(cache, batch)
        /\ indices_to_embed' = idx
        /\ texts_to_embed' = [k \in 1..Len(idx) |-> batch[idx[k] + 1]]
        /\ api_embeddings' = <<>>
        /\ pc' = "ds_request"
        /\ UNCHANGED <<configVars, cache, requests, texts, embeddings, batch_start, returned,
                       stored, raised, notEmbed>>

\* lines 204-228: the request for the next text to embed succeeds
DsRequestOk ==
    /\ pc = "ds_request"
    /\ Len(api_embeddings) < Len(texts_to_embed)
    /\ LET t == texts_to_embed[Len(api_embeddings) + 1]
       IN  /\ requests' = Append(requests, Request("deepseek", <<t>>))
           /\ api_embeddings' = Append(api_embeddings, generate_dummy_embedding(t))
    /\ UNCHANGED <<configVars, cache, texts, embeddings, batch_start, batch_embeddings,
                   texts_to_embed, indices_to_embed, returned, stored, raised, pc, notEmbed>>

\* lines 216-223 and 244-249: the request fails, raise_for_status raises, and the
\* handler calls generate_openai_embeddings(texts)
DsRequestFail ==
    /\ pc = "ds_request"
    /\ Len(api_embeddings) < Len(texts_to_embed)
    /\ requests' = Append(requests,
                          Request("deepseek", <<texts_to_embed[Len(api_embeddings) + 1]>>))
    /\ api_embeddings' = <<>>
    /\ pc' = "openai"
    /\ UNCHANGED <<configVars, cache, texts, embeddings, batch_start, batch_embeddings,
                   texts_to_embed, indices_to_embed, returned, stored, raised, notEmbed>>

\* lines 230-240: save, merge, extend
DsMerge ==
    /\ pc = "ds_request"
    /\ Len(api_embeddings) = Len(texts_to_embed)
    /\ cache' = SaveAll(cache, texts_to_embed, api_embeddings)
    /\ batch_embeddings' = Merge(batch_embeddings, indices_to_embed, api_embeddings)
    /\ embeddings' = embeddings \o Merge(batch_embeddings, indices_to_embed, api_embeddings)
    /\ batch_start' = batch_start + DEEPSEEK_BATCH_SIZE
    /\ pc' = "ds_batch"
    /\ UNCHANGED <<configVars, requests, texts, texts_to_embed, indices_to_embed,
                   api_embeddings, returned, stored, raised, notEmbed>>

\* line 242
DsReturn ==
    /\ pc = "ds_batch"
    /\ batch_start >= Len(texts)
    /\ returned' = embeddings
    /\ pc' = "gen_done"
    /\ UNCHANGED <<configVars, cache, requests, texts, genLocals, stored, raised, notEmbed>>

\* generate_openai_embeddings, lines 103-105, and lines 170-171 or 252-254
OpenAINoKey ==
    /\ pc = "openai"
    /\ ~OPENAI_API_KEY
    /\ api_embeddings' = <<>>
    /\ pc' = "dummy"
    /\ UNCHANGED <<configVars, cache, requests, texts, embeddings, batch_start,
                   batch_embeddings, texts_to_embed, indices_to_embed, returned, stored,
                   raised, notEmbed>>

\* lines 112-138: the request for the next batch succeeds, one vector a text
OpenAIRequestOk ==
    LET batch == Batch(texts, Len(api_embeddings), OPENAI_BATCH_SIZE)
    IN  /\ pc = "openai"
        /\ OPENAI_API_KEY
        /\ Len(api_embeddings) < Len(texts)
        /\ requests' = Append(requests, Request("openai", batch))
        /\ \E sizes \in [1..Len(batch) -> BackendSizes] :
               api_embeddings' = api_embeddings \o
                   [j \in 1..Len(batch) |-> OpenAIVector(batch[j], sizes[j])]
        /\ UNCHANGED <<configVars, cache, texts, embeddings, batch_start, batch_embeddings,
                       texts_to_embed, indices_to_embed, returned, stored, raised, pc,
                       notEmbed>>

\* lines 126-133 and 142-144: it fails, the function returns None
OpenAIRequestFail ==
    /\ pc = "openai"
    /\ OPENAI_API_KEY
    /\ Len(api_embeddings) < Len(texts)
    /\ requests' = Append(requests,
                          Request("openai", Batch(texts, Len(api_embeddings), OPENAI_BATCH_SIZE)))
    /\ api_embeddings' = <<>>
    /\ pc' = "dummy"
    /\ UNCHANGED <<configVars, cache, texts, embeddings, batch_start, batch_embeddings,
                   texts_to_embed, indices_to_embed, returned, stored, raised, notEmbed>>

\* line 140, and lines 168-169 or 250-251
OpenAIReturn ==
    /\ pc = "openai"
    /\ OPENAI_API_KEY
    /\ Len(api_embeddings) >= Len(texts)
    /\ returned' = api_embeddings
    /\ pc' = "gen_done"
    /\ UNCHANGED <<configVars, cache, requests, texts, genLocals, stored, raised, notEmbed>>

\* lines 260-264
DummyCached ==
    /\ pc = "dummy"
    /\ Len(api_embeddings) < Len(texts)
    /\ get_cached_embedding(cache, texts[Len(api_embeddings) + 1]) # None
    /\ api_embeddings' =
           Append(api_embeddings, get_cached_embedding(cache, texts[Len(api_embeddings) + 1]))
    /\ UNCHANGED <<configVars, cache, requests, texts, embeddings, batch_start,
                   batch_embeddings, texts_to_embed, indices_to_embed, returned, stored,
                   raised, pc, notEmbed>>

\* lines 265-269
DummyCompute ==
    /\ pc = "dummy"
    /\ Len(api_embeddings) < Len(texts)
    /\ get_cached_embedding(cache, texts[Len(api_embeddings) + 1]) = None
    /\ LET t == texts[Len(api_embeddings) + 1]
       IN  /\ cache' = save_embedding_to_cache(cache, t, generate_dummy_embedding(t))
           /\ api_embeddings' = Append(api_embeddings, generate_dummy_embedding(t))
    /\ UNCHANGED <<configVars, requests, texts, embeddings, batch_start, batch_embeddings,
                   texts_to_embed, indices_to_embed, returned, stored, raised, pc, notEmbed>>

\* line 271
DummyReturn ==
    /\ pc = "dummy"
    /\ Len(api_embeddings) = Len(texts)
    /\ returned' = api_embeddings
    /\ pc' = "gen_done"
    /\ UNCHANGED <<configVars, cache, requests, texts, genLocals, stored, raised, notEmbed>>

(***************************************************************************)
(* store_embeddings(chunks, embeddings), called as ingest_video calls it:  *)
(* with the chunks whose texts were embedded and what generate_embeddings  *)
(* returned.                                                               *)
(***************************************************************************)
\* the vector_id of line 295: a digest of the embedding
VectorId(e) == [kind |-> "vec", n |-> 0, e |-> e]

\* a chunk as process_video_subtitles leaves it: no embedding, a uuid4
NewChunk(t, i) == [text |-> t, embedding |-> None, vector_id |-> [kind |-> "uuid", n |-> i, e |-> None]]

\* the chunks the loop of line 287 has updated
StoreIndex == Cardinality({i \in 1..Len(stored) : stored[i].embedding # None})

EmbeddingToStore_Unchecked(chunk, embedding) == embedding

\* lines 289-291
EmbeddingToStore(chunk, embedding) ==
    IF embedding.len # EMBEDDING_VECTOR_SIZE
    THEN generate_dummy_embedding(chunk.text)
    ELSE embedding

\* lines 284-285
StoreMismatch ==
    /\ pc = "gen_done"
    /\ Len(stored) # Len(returned)
    /\ raised' = "ValueError"
    /\ pc' = "store_raised"
    /\ UNCHANGED <<configVars, cache, requests, texts, genLocals, returned, stored, notEmbed>>

\* the loop entered without the check of the lengths: zip pairs the chunks and
\* the vectors up to the shorter list
StoreEnter_Unchecked ==
    /\ pc = "gen_done"
    /\ pc' = "store_loop"
    /\ UNCHANGED <<configVars, cache, requests, texts, genLocals, returned, stored, raised,
                   notEmbed>>

\* lines 284 and 287: the lengths are equal, the loop is entered
StoreEnter ==
    /\ pc = "gen_done"
    /\ Len(stored) = Len(returned)
    /\ pc' = "store_loop"
    /\ UNCHANGED <<configVars, cache, requests, texts, genLocals, returned, stored, raised,
                   notEmbed>>

\* lines 287-295 for the next chunk
StoreAttach ==
    /\ pc = "store_loop"
    /\ StoreIndex < Len(stored)
    /\ returned[StoreIndex + 1] # None
    /\ LET i == StoreIndex + 1
           e == EmbeddingToStore(stored[i], returned[i])
       IN  stored' = [stored EXCEPT ![i] = [text |-> stored[i].text, embedding |-> e,
                                            vector_id |-> VectorId(e)]]
    /\ UNCHANGED <<configVars, cache, requests, texts, genLocals, returned, raised, pc,
                   notEmbed>>

\* line 289 with embedding None: len(None) raises
StoreTypeError ==
    /\ pc = "store_loop"
    /\ StoreIndex < Len(stored)
    /\ returned[StoreIndex + 1] = None
    /\ raised' = "TypeError"
    /\ pc' = "store_raised"
    /\ UNCHANGED <<configVars, cache, requests, texts, genLocals, returned, stored, notEmbed>>

\* line 297
StoreReturn ==
    /\ pc = "store_loop"
    /\ StoreIndex = Len(stored)
    /\ pc' = "store_done"
    /\ UNCHANGED <<embedVars, notEmbed>>

\* what the cache directory may hold for a text when a run starts: nothing, the
\* vector an earlier run saved, or one saved when the vector size was another
CacheStates ==
    {c \in [EmbedTexts -> [of : EmbedTexts, by : {"dummy"}, len : BackendSizes] \cup {None}] :
        \A t \in EmbedTexts : c[t] \in {None, generate_dummy_embedding(t), StaleVector(t)}}

InitEmbed ==
    /\ DEEPSEEK_API_KEY \in BOOLEAN
    /\ OPENAI_API_KEY \in BOOLEAN
    /\ cache \in CacheStates
    /\ requests = <<>>
    /\ texts \in SeqsUpTo(EmbedTexts, MaxTexts)
    /\ embeddings = <<>>
    /\ batch_start = 0
    /\ batch_embeddings = <<>>
    /\ texts_to_embed = <<>>
    /\ indices_to_embed = <<>>
    /\ api_embeddings = <<>>
    /\ returned = <<>>
    /\ stored = [i \in 1..Len(texts) |-> NewChunk(texts[i], i)]
    /\ raised = "none"
    /\ pc = "gen_entry"
    /\ ChunkIdle
    /\ CleanIdle
    /\ SubsIdle
    /\ RestIdle

NextEmbed ==
    \/ GenEmpty
    \/ GenNoKey
    \/ GenPrimary
    \/ DsBatchCached
    \/ DsBatchUncached
    \/ DsRequestOk
    \/ DsRequestFail
    \/ DsMerge
    \/ DsReturn
    \/ OpenAINoKey
    \/ OpenAIRequestOk
    \/ OpenAIRequestFail
    \/ OpenAIReturn
    \/ DummyCached
    \/ DummyCompute
    \/ DummyReturn
    \/ StoreMismatch
    \/ StoreEnter
    \/ StoreAttach
    \/ StoreTypeError
    \/ StoreReturn

SpecEmbed == InitEmbed /\ [][NextEmbed]_vars

(***************************************************************************)
(* generate_dummy_embedding(text), step by step.  np.random is one         *)
(* generator for the whole process: its state is the seed it was last      *)
(* seeded with and the number of values drawn since.  A vector is the      *)
(* record of the seed and the position its values were drawn from, and its *)
(* length; dividing it by its norm is a function of these values.  The     *)
(* program is single-threaded: a call runs to its end before the next one. *)
(***************************************************************************)
DummyTexts == {"x", "y", "z"}

\* lines 33-34: int(md5(text), 16) % 2**32
TextSeed(t) == CASE t = "x" -> 1 [] t = "y" -> 2 [] OTHER -> 3

\* line 37
NpSeed(seed) == [seed |-> seed, pos |-> 0]

\* line 40: what np.random.normal(0, 1, n) returns in the state st
NpNormal(st, n) == [seed |-> st.seed, pos |-> st.pos, len |-> n]

\* the state np.random.normal(0, 1, n) leaves
NpAfterNormal(st, n) == [seed |-> st.seed, pos |-> st.pos + n]

\* lines 21 and 33: the call and the hash of the text
DummyCall(t) ==
    /\ pc = "dummy_idle"
    /\ Len(dummy_log) < MaxCalls
    /\ dummy_text' = t
    /\ pc' = "dummy_seed"
    /\ UNCHANGED <<np_state, dummy_log, notDummy>>

\* the seeding left out: the generator stays as the last call left it
DummySeed_Unseeded ==
    /\ pc = "dummy_seed"
    /\ pc' = "dummy_draw"
    /\ UNCHANGED <<np_state, dummy_text, dummy_log, notDummy>>

\* lines 34-37
DummySeed ==
    /\ pc = "dummy_seed"
    /\ np_state' = NpSeed(TextSeed(dummy_text))
    /\ pc' = "dummy_draw"
    /\ UNCHANGED <<dummy_text, dummy_log, notDummy>>

\* lines 40-45
DummyDraw ==
    /\ pc = "dummy_draw"
    /\ dummy_log' = Append(dummy_log, [text |-> dummy_text,
                                       vector |-> NpNormal(np_state, EMBEDDING_VECTOR_SIZE)])
    /\ np_state' = NpAfterNormal(np_state, EMBEDDING_VECTOR_SIZE)
    /\ pc' = "dummy_idle"
    /\ UNCHANGED <<dummy_text, notDummy>>

\* the generator as whatever ran before left it
InitDummy ==
    /\ np_state \in [seed : 0..3, pos : {0, EMBEDDING_VECTOR_SIZE}]
    /\ dummy_text = ""
    /\ dummy_log = <<>>
    /\ pc = "dummy_idle"
    /\ ChunkIdle
    /\ CleanIdle
    /\ SubsIdle
    /\ EmbedIdle
    /\ CacheOpIdle
    /\ SearchIdle
    /\ LateIdle

NextDummy ==
    \/ \E t \in DummyTexts : DummyCall(t)
    \/ DummySeed
    \/ DummyDraw

SpecDummy == InitDummy /\ [][NextDummy]_vars

(***************************************************************************)
(* The cache as its two functions are called: save_embedding_to_cache and  *)
(* get_cached_embedding on a cache directory that starts empty.  The file  *)
(* of a text holds the JSON text of a list of floats, which json.load      *)
(* reads back as that list: the file is modelled by the vector it holds.   *)
(***************************************************************************)
\* the vectors a caller may save: of the configured length or not, for the text
\* they are saved under or for another one
PutVectors ==
    {generate_dummy_embedding(t) : t \in EmbedTexts}
        \cup {StaleVector("x"), OpenAIVector("y", EMBEDDING_VECTOR_SIZE)}

\* lines 75-91
CachePut(t, v) ==
    /\ pc = "cache_idle"
    /\ Len(puts) < MaxPuts
    /\ cache' = save_embedding_to_cache(cache, t, v)
    /\ puts' = Append(puts, [text |-> t, vector |-> v])
    /\ UNCHANGED <<got, pc, notCache>>

\* lines 47-73
CacheGet(t) ==
    /\ pc = "cache_idle"
    /\ got' = [text |-> t, result |-> get_cached_embedding(cache, t), at |-> Len(puts)]
    /\ UNCHANGED <<cache, puts, pc, notCache>>

InitCache ==
    /\ cache = [t \in EmbedTexts |-> None]
    /\ puts = <<>>
    /\ got = [text |-> "", result |-> None, at |-> 0]
    /\ pc = "cache_idle"
    /\ DEEPSEEK_API_KEY = FALSE
    /\ OPENAI_API_KEY = FALSE
    /\ requests = <<>>
    /\ texts = <<>>
    /\ embeddings = <<>>
    /\ batch_start = 0
    /\ batch_embeddings = <<>>
    /\ texts_to_embed = <<>>
    /\ indices_to_embed = <<>>
    /\ api_embeddings = <<>>
    /\ returned = <<>>
    /\ stored = <<>>
    /\ raised = "none"
    /\ ChunkIdle
    /\ CleanIdle
    /\ SubsIdle
    /\ DummyIdle
    /\ SearchIdle
    /\ LateIdle

NextCache ==
    \/ \E t \in EmbedTexts, v \in PutVectors : CachePut(t, v)
    \/ \E t \in EmbedTexts : CacheGet(t)

SpecCache == InitCache /\ [][NextCache]_vars

(***************************************************************************)
(* search_vector_store(query, top_k).  The collection is the list of its   *)
(* entries; an entry has the document, the embedding and the metadata      *)
(* add_chunks_to_vector_store gave it.  Distances and scores are counted   *)
(* in fifths: the distance 0.2 is 1 and the score 0.8 is 4.  What a query  *)
(* of the collection answers is the collection's: the entries nearest      *)
(* first, at most n_results of them; how far an entry is from the query is *)
(* chosen freely.                                                          *)
(***************************************************************************)
\* the 1.0 of line 119, in fifths
ScoreOne == 5

Distances == 0..MaxDistance

\* the entry add_chunks_to_vector_store makes of the k-th chunk added
IndexEntry(t, e, k) ==
    [document |-> t, embedding |-> e,
     metadata |-> [source_type |-> "video", chunk_index |-> k - 1]]

\* the vectors store_embeddings attaches to a chunk of text t: the one of the
\* primary backend or of the local fallback, or the one of the secondary backend
StoredVectors(t) == {generate_dummy_embedding(t), OpenAIVector(t, EMBEDDING_VECTOR_SIZE)}

\* the entries in the order they were added, whatever their distances
Ranked_Unsorted(dist) == [r \in 1..Len(dist) |-> r]

\* collection.query: the positions of the entries, nearest first; entries at
\* the same distance in the order of the collection
Ranked(dist) ==
    LET n == Len(dist)
        Before(a, b) == dist[a] < dist[b] \/ (dist[a] = dist[b] /\ a < b)
        Place(a) == Cardinality({b \in 1..n : Before(b, a)}) + 1
    IN  [r \in 1..n |-> CHOOSE a \in 1..n : Place(a) = r]

NoResults == [documents |-> <<>>, metadatas |-> <<>>, distances |-> <<>>]

\* what collection.query(..., n_results = n, include = documents, metadatas,
\* distances) answers for the one query when the entries are at the distances dist
Response(idx, dist, n) ==
    LET order == Ranked(dist)
        m == IF n < Len(idx) THEN n ELSE Len(idx)
    IN  [documents |-> [r \in 1..m |-> idx[order[r]].document],
         metadatas |-> [r \in 1..m |-> idx[order[r]].metadata],
         distances |-> [r \in 1..m |-> dist[order[r]]]]

\* the distance as the score
Score_Distance(distance) == distance

\* line 119
Score(distance) == ScoreOne - distance

\* line 124: dict.update, the keys of the metadata replace those of the chunk
Update(chunk, metadata) ==
    [key \in DOMAIN chunk \cup DOMAIN metadata |->
        IF key \in DOMAIN metadata THEN metadata[key] ELSE chunk[key]]

\* lines 117-124 for the i-th result
FormatResult(res, i) ==
    Update([text |-> res.documents[i], score |-> Score(res.distances[i]), rank |-> i],
           res.metadatas[i])

\* lines 86-88: the client and the collection
SearchOpen ==
    /\ pc = "search_entry"
    /\ pc' = "search_try"
    /\ UNCHANGED <<searchVars, notSearch>>

\* lines 87-88 raise: outside the try, the caller gets the exception
SearchOpenFail ==
    /\ pc = "search_entry"
    /\ search_error' = "client"
    /\ pc' = "search_raised"
    /\ UNCHANGED <<index, query, top_k, query_embedding, queries, results, search_chunks,
                   notSearch>>

\* lines 92-99: the query with the embedding of the query answers
SearchVectorOk(dist) ==
    /\ pc = "search_try"
    /\ query_embedding' = generate_dummy_embedding(query)
    /\ queries' = Append(queries,
           [kind |-> "embedding", query_embeddings |-> <<generate_dummy_embedding(query)>>,
            query_texts |-> <<>>, n_results |-> top_k, ok |-> TRUE,
            response |-> Response(index, dist, top_k)])
    /\ results' = Response(index, dist, top_k)
    /\ pc' = "search_format"
    /\ UNCHANGED <<index, query, top_k, search_chunks, search_error, notSearch>>

\* the failure of the query with the embedding is not handled
SearchVectorFail_Raise ==
    /\ pc = "search_try"
    /\ query_embedding' = generate_dummy_embedding(query)
    /\ queries' = Append(queries,
           [kind |-> "embedding", query_embeddings |-> <<generate_dummy_embedding(query)>>,
            query_texts |-> <<>>, n_results |-> top_k, ok |-> FALSE, response |-> NoResults])
    /\ search_error' = "query"
    /\ pc' = "search_raised"
    /\ UNCHANGED <<index, query, top_k, results, search_chunks, notSearch>>

\* lines 92-101: it raises, the handler is entered
SearchVectorFail ==
    /\ pc = "search_try"
    /\ query_embedding' = generate_dummy_embedding(query)
    /\ queries' = Append(queries,
           [kind |-> "embedding", query_embeddings |-> <<generate_dummy_embedding(query)>>,
            query_texts |-> <<>>, n_results |-> top_k, ok |-> FALSE, response |-> NoResults])
    /\ pc' = "search_fallback"
    /\ UNCHANGED <<index, query, top_k, results, search_chunks, search_error, notSearch>>

\* lines 103-107: the query with the text of the query answers
SearchKeywordOk(dist) ==
    /\ pc = "search_fallback"
    /\ queries' = Append(queries,
           [kind |-> "text", query_embeddings |-> <<>>, query_texts |-> <<query>>,
            n_results |-> top_k, ok |-> TRUE, response |-> Response(index, dist, top_k)])
    /\ results' = Response(index, dist, top_k)
    /\ pc' = "search_format"
    /\ UNCHANGED <<index, query, top_k, query_embedding, search_chunks, search_error,
                   notSearch>>

\* lines 103-107: it raises inside the handler, the caller gets the exception
SearchKeywordFail ==
    /\ pc = "search_fallback"
    /\ queries' = Append(queries,
           [kind |-> "text", query_embeddings |-> <<>>, query_texts |-> <<query>>,
            n_results |-> top_k, ok |-> FALSE, response |-> NoResults])
    /\ search_error' = "query"
    /\ pc' = "search_raised"
    /\ UNCHANGED <<index, query, top_k, query_embedding, results, search_chunks, notSearch>>

\* lines 111-126 for the next result
SearchFormat ==
    /\ pc = "search_format"
    /\ Len(search_chunks) < Len(results.documents)
    /\ search_chunks' = Append(search_chunks, FormatResult(results, Len(search_chunks) + 1))
    /\ UNCHANGED <<index, query, top_k, query_embedding, queries, results, search_error, pc,
                   notSearch>>

\* line 128
SearchReturn ==
    /\ pc = "search_format"
    /\ Len(search_chunks) = Len(results.documents)
    /\ pc' = "search_done"
    /\ UNCHANGED <<searchVars, notSearch>>

\* the collection as ingestion left it: every entry with a vector that
\* store_embeddings attached to a chunk of its text
IndexStates ==
    UNION {{[k \in 1..n |-> IndexEntry(ts[k], es[k], k)] :
                ts \in [1..n -> EmbedTexts],
                es \in [1..n -> UNION {StoredVectors(t) : t \in EmbedTexts}]} : n \in 0..MaxHits}

InitSearch ==
    /\ index \in {idx \in IndexStates :
                    \A k \in 1..Len(idx) : idx[k].embedding \in StoredVectors(idx[k].document)}
    /\ query \in EmbedTexts
    /\ top_k \in 1..MaxTopK
    /\ query_embedding = None
    /\ queries = <<>>
    /\ results = NoResults
    /\ search_chunks = <<>>
    /\ search_error = "none"
    /\ pc = "search_entry"
    /\ ChunkIdle
    /\ CleanIdle
    /\ SubsIdle
    /\ EmbedIdle
    /\ DummyIdle
    /\ CacheOpIdle
    /\ LateIdle

NextSearch ==
    \/ SearchOpen
    \/ SearchOpenFail
    \/ \E dist \in [1..Len(index) -> Distances] : SearchVectorOk(dist)
    \/ SearchVectorFail
    \/ \E dist \in [1..Len(index) -> Distances] : SearchKeywordOk(dist)
    \/ SearchKeywordFail
    \/ SearchFormat
    \/ SearchReturn

SpecSearch == InitSearch /\ [][NextSearch]_vars

(***************************************************************************)
(* Properties of chunk_text                                                *)
(***************************************************************************)
ChunkTexts == [i \in 1..Len(chunks) |-> chunks[i].text]
Returned == pc = "chunk_done"

\* C2: chunk_text terminates whenever 0 <= overlap < chunk_size.  The loop is
\* deterministic in (text, start), so it terminates exactly when no iteration
\* starts at an offset an earlier iteration started at: no two chunks are cut
\* from the same start.
C2_NoWindowTwice ==
    \A i, j \in 1..Len(chunks) : i < j => chunks[i].from # chunks[j].from

\* C3 as stated: whenever len(text) <= chunk_size, chunk_text returns [text].
C3_ShortIsSingleton ==
    (Returned /\ Len(text) <= chunk_size) => ChunkTexts = <<text>>

\* C3 amended: whenever text is not empty and len(text) <= chunk_size,
\* chunk_text returns [text]; for the empty text it returns [].
C3_NonEmptyShortIsSingleton ==
    /\ (Returned /\ text # <<>> /\ Len(text) <= chunk_size) => ChunkTexts = <<text>>
    /\ (Returned /\ text = <<>>) => ChunkTexts = <<>>

C3_Witness ==
    /\ Returned
    /\ Len(text) = chunk_size
    /\ chunk_size >= 2
    /\ text[1] = " "
    /\ ChunkTexts = <<text>>

\* C4: for a text longer than chunk_size the slices [from, to) of the chunks, in
\* order, leave no gap: the first starts at 0, each next one starts at or before
\* the end of the one before it, and on return the last one ends at len(text)
\* and every offset of the text lies in some slice.
C4_NoGaps ==
    Len(text) > chunk_size =>
        /\ \A i \in 1..Len(chunks) :
               /\ chunks[i].from <= chunks[i].to
               /\ i = 1 => chunks[i].from = 0
               /\ i > 1 => chunks[i].from <= chunks[i - 1].to
        /\ Returned =>
               /\ chunks # <<>>
               /\ chunks[Len(chunks)].to = Len(text)
               /\ \A p \in 0..(Len(text) - 1) :
                      \E i \in 1..Len(chunks) : chunks[i].from <= p /\ p < chunks[i].to

C4_Witness ==
    /\ Returned
    /\ Len(text) > chunk_size
    /\ Len(chunks) >= 3
    /\ \E i \in 2..Len(chunks) : chunks[i].from < chunks[i - 1].to
    /\ \E i \in 2..Len(chunks) : chunks[i].from = chunks[i - 1].to

(***************************************************************************)
(* Properties of clean_text                                                *)
(***************************************************************************)
\* C5: clean_text is idempotent: applied to its own result it returns that
\* result unchanged.
C5_Idempotent ==
    (pc = "clean_return" /\ cl_pass = 2) => cl_text = cl_first

(***************************************************************************)
(* Properties of process_video_subtitles                                   *)
(***************************************************************************)
\* the offset at which subtitle k starts in the joined text
SubOffset(k) ==
    LET F[i \in 1..k] == IF i = 1 THEN 0 ELSE F[i - 1] + Len(subtitles[i - 1].text) + 1
    IN  F[k]

\* no subtitle's characters [SubOffset, SubOffset + len] touch the span of chunk c
NoSubtitleOverlaps(c) ==
    \A k \in 1..Len(subtitles) :
        \/ SubOffset(k) > c.end_pos
        \/ SubOffset(k) + Len(subtitles[k].text) < c.start_pos

\* C6: the subtitles being ordered by start time, the chunks have start_time
\* non-decreasing in chunk_index order.
C6_StartTimesMonotone ==
    \A i, j \in 1..Len(out) : i < j => out[i].start_time <= out[j].start_time

\* C7: with at least one subtitle, every chunk has its start_time and end_time
\* set (to a subtitle's start and a subtitle's end), and a chunk whose span no
\* subtitle overlaps has the first subtitle's start_time and the last one's
\* end_time.
C7_TimesAlwaysSet ==
    subtitles # <<>> =>
        \A i \in 1..Len(out) :
            /\ \E k \in 1..Len(subtitles) : out[i].start_time = subtitles[k].start_time
            /\ \E k \in 1..Len(subtitles) : out[i].end_time = subtitles[k].end_time
            /\ NoSubtitleOverlaps(out[i]) =>
                   /\ out[i].start_time = subtitles[1].start_time
                   /\ out[i].end_time = subtitles[Len(subtitles)].end_time

C7_Witness ==
    /\ pc = "subs_done"
    /\ Len(subtitles) >= 2
    /\ \E i \in 1..Len(out) :
           /\ NoSubtitleOverlaps(out[i])
           /\ out[i].start_time = subtitles[1].start_time
           /\ out[i].end_time = subtitles[Len(subtitles)].end_time
    /\ \E i \in 1..Len(out) : ~NoSubtitleOverlaps(out[i])

\* C8: on return every subtitle lies inside the [start_time, end_time] of at
\* least one chunk.
C8_EverySubtitleCovered ==
    pc = "subs_done" =>
        \A k \in 1..Len(subtitles) :
            \E i \in 1..Len(out) :
                /\ out[i].start_time <= subtitles[k].start_time
                /\ subtitles[k].end_time <= out[i].end_time

(***************************************************************************)
(* Properties of generate_embeddings and store_embeddings                  *)
(***************************************************************************)
GenReturned == pc \in {"gen_done", "store_loop", "store_raised", "store_done"}

\* C1: generate_embeddings returns exactly len(texts) vectors, the i-th one the
\* embedding of texts[i] (never None, never the vector of another text).
C1_SameLengthAndOrder ==
    GenReturned =>
        /\ Len(returned) = Len(texts)
        /\ \A i \in 1..Len(returned) : returned[i] # None /\ returned[i].of = texts[i]

\* C9: every vector store_embeddings attaches to a chunk has the configured
\* length; a returned vector of another length is replaced by the dummy
\* embedding of that chunk's text, and a returned vector of the configured
\* length is attached as it is.
C9_StoredDimension ==
    \A i \in 1..Len(stored) :
        stored[i].embedding # None =>
            /\ stored[i].embedding.len = EMBEDDING_VECTOR_SIZE
            /\ returned[i].len # EMBEDDING_VECTOR_SIZE =>
                   stored[i].embedding = generate_dummy_embedding(stored[i].text)
            /\ returned[i].len = EMBEDDING_VECTOR_SIZE => stored[i].embedding = returned[i]

C9_Witness ==
    /\ pc = "store_done"
    /\ \E i, j \in 1..Len(stored) :
           /\ returned[i].by = "openai"
           /\ returned[i].len # EMBEDDING_VECTOR_SIZE
           /\ stored[i].embedding = generate_dummy_embedding(texts[i])
           /\ returned[j].by = "openai"
           /\ returned[j].len = EMBEDDING_VECTOR_SIZE
           /\ stored[j].embedding = returned[j]

\* C10: the cache is consulted before any request: no request is posted for a
\* text that has a valid cached vector, and generate_embeddings returns for such
\* a text its cached vector.
C10_CachedNeverRequested ==
    [][/\ requests' # requests =>
            \A k \in 1..Len(requests'[Len(requests')].input) :
                get_cached_embedding(cache, requests'[Len(requests')].input[k]) = None
       /\ (pc # "gen_done" /\ pc' = "gen_done") =>
            \A i \in 1..Len(texts) :
                get_cached_embedding(cache, texts[i]) # None =>
                    /\ i <= Len(returned')
                    /\ returned'[i] = get_cached_embedding(cache, texts[i])]_vars

\* C11: the cache is populated per text: the vector computed for a text by a
\* successful request of the primary backend is in the cache when
\* generate_embeddings has returned, whether or not a later request of the
\* same batch failed.  A request of the primary backend that is followed by
\* another one succeeded: a failed one ends the primary path.
C11_ComputedIsCached ==
    GenReturned =>
        \A k \in 1..Len(requests) :
            (/\ requests[k].to = "deepseek"
             /\ \E j \in (k + 1)..Len(requests) : requests[j].to = "deepseek")
            => cache[requests[k].input[1]] = generate_dummy_embedding(requests[k].input[1])

\* the step posts a request to the backend b
Posted(b) ==
    /\ Len(requests') = Len(requests) + 1
    /\ requests'[Len(requests')].to = b

C13_DummyIsPure ==
    /\ \A i, j \in 1..Len(dummy_log) :
           dummy_log[i].text = dummy_log[j].text => dummy_log[i].vector = dummy_log[j].vector
    /\ \A i \in 1..Len(dummy_log) : dummy_log[i].vector.len = EMBEDDING_VECTOR_SIZE

\* the same text embedded twice with the call for another text in between
C13_Witness ==
    /\ pc = "dummy_idle"
    /\ Len(dummy_log) >= 3
    /\ dummy_log[1].text = dummy_log[3].text
    /\ dummy_log[2].text # dummy_log[1].text
    /\ dummy_log[1].vector = dummy_log[3].vector
    /\ dummy_log[2].vector # dummy_log[1].vector

\* the saves of the text of the last get that were made before it
PutsBeforeGet == {k \in 1..got.at : puts[k].text = got.text}

IsStale(v) == v.by = "dummy" /\ v.len # EMBEDDING_VECTOR_SIZE

\* C15: get_cached_embedding returns None for a text whose stored vector has
\* another length than the configured one, and generate_embeddings computes
\* the vector of such a text again: no list it builds or returns holds a
\* stored vector of another length.
C15_WrongSizeIsAbsent ==
    /\ \A t \in DOMAIN cache :
           (cache[t] # None /\ cache[t].len # EMBEDDING_VECTOR_SIZE)
               => get_cached_embedding(cache, t) = None
    /\ \A i \in 1..Len(batch_embeddings) : ~IsStale(batch_embeddings[i])
    /\ \A i \in 1..Len(api_embeddings) : ~IsStale(api_embeddings[i])
    /\ \A i \in 1..Len(embeddings) : ~IsStale(embeddings[i])
    /\ \A i \in 1..Len(returned) : ~IsStale(returned[i])

\* the vector of a text was computed again while the cache file of the text
\* still held a vector of another length
C15_Witness ==
    /\ pc = "ds_request"
    /\ \E k \in 1..Len(api_embeddings) :
           /\ cache[texts_to_embed[k]] = StaleVector(texts_to_embed[k])
           /\ api_embeddings[k] = generate_dummy_embedding(texts_to_embed[k])
    /\ \E i \in 1..Len(texts) : get_cached_embedding(cache, texts[i]) # None

\* store_embeddings was called
StoreCalled == pc \in {"store_loop", "store_raised", "store_done"}

\* C16: store_embeddings called with lists of different lengths raises the
\* ValueError of the count mismatch, and has changed no chunk: every chunk is
\* as it was passed, without embedding and with the vector_id it came with.
C16_MismatchRaisesUnmodified ==
    (StoreCalled /\ Len(stored) # Len(returned)) =>
        /\ pc = "store_raised"
        /\ raised = "ValueError"
        /\ \A i \in 1..Len(stored) : stored[i] = NewChunk(texts[i], i)

\* fewer vectors than chunks, the first of them a vector that could be attached
C16_Witness ==
    /\ pc = "store_raised"
    /\ raised = "ValueError"
    /\ Len(stored) >= 2
    /\ Len(returned) >= 1
    /\ Len(returned) < Len(stored)
    /\ returned[1] # None
    /\ \A i \in 1..Len(stored) : stored[i] = NewChunk(texts[i], i)

C18_ScoreIsOneMinusDistance ==
    \A i \in 1..Len(search_chunks) :
        /\ search_chunks[i].score = ScoreOne - results.distances[i]
        /\ search_chunks[i].text = results.documents[i]
        /\ \A key \in DOMAIN results.metadatas[i] :
               search_chunks[i][key] = results.metadatas[i][key]

\* a result at the distance 0.2 with the score 0.8, after a nearer one
C18_Witness ==
    /\ pc = "search_done"
    /\ Len(search_chunks) >= 2
    /\ results.distances[1] = 0
    /\ search_chunks[1].score = ScoreOne
    /\ results.distances[2] = 1
    /\ search_chunks[2].score = ScoreOne - 1
    /\ search_chunks[2].source_type = "video"
    /\ search_chunks[2].text = results.documents[2]

\* C19: when the query with the embedding failed, one query with the text of
\* the query and the same n_results follows, and no other; when it answered,
\* search_vector_store raises nothing and returns the results made of its
\* answer; the caller gets an exception only when it failed too.
C19_KeywordFallback ==
    /\ Len(queries) <= 2
    /\ \A k \in 1..Len(queries) : queries[k].kind = "text" => (k = 2 /\ ~queries[1].ok)
    /\ (queries # <<>> /\ ~queries[1].ok) =>
           /\ queries[1].kind = "embedding"
           /\ pc # "search_fallback" =>
                  /\ Len(queries) = 2
                  /\ queries[2].kind = "text"
                  /\ queries[2].query_texts = <<query>>
                  /\ queries[2].n_results = top_k
                  /\ queries[2].n_results = queries[1].n_results
                  /\ queries[2].ok =>
                         /\ search_error = "none"
                         /\ pc \in {"search_format", "search_done"}
                         /\ results = queries[2].response
                         /\ pc = "search_done" =>
                                search_chunks = [i \in 1..Len(results.documents) |->
                                                     FormatResult(queries[2].response, i)]
                  /\ ~queries[2].ok => pc = "search_raised"

\* the query with the embedding failed and the results of the query with the
\* text were returned
C19_Witness ==
    /\ pc = "search_done"
    /\ Len(queries) = 2
    /\ ~queries[1].ok
    /\ queries[2].ok
    /\ search_error = "none"
    /\ Len(search_chunks) >= 2
    /\ Len(search_chunks) = Len(queries[2].response.documents)

\* C20: the query is embedded as the chunks were: a query equal to the text of
\* an entry of the collection is embedded to the vector stored with that entry.
C20_QueryEmbeddedAsStored ==
    queries # <<>> =>
        \A k \in 1..Len(index) :
            index[k].document = query => index[k].embedding = query_embedding

(***************************************************************************)
(* More properties of chunk_text                                           *)
(***************************************************************************)
\* C23: the start of every iteration of chunk_text is strictly greater than
\* the start of the iteration before it.
C23_StartStrictlyIncreases ==
    \A i \in 2..Len(chunks) : chunks[i].from > chunks[i - 1].from

\* the offsets p of the window [a, w) at which the sentence terminator ". "
\* lies, both characters inside the window
TerminatorsIn(a, w) == {p \in a..(w - 2) : text[p + 1] = "." /\ text[p + 2] = " "}

\* the offsets of the spaces of the window [a, w)
SpacesIn(a, w) == {p \in a..(w - 1) : text[p + 1] = " "}

SubsOverlapping(c) ==
    {k \in 1..Len(subtitles) :
        SubOffset(k) <= c.end_pos /\ SubOffset(k) + Len(subtitles[k].text) >= c.start_pos}

\* C25: a chunk whose span at least one subtitle overlaps has as start_time
\* the least start_time and as end_time the greatest end_time of exactly the
\* overlapping subtitles.
C25_TimesFromOverlapping ==
    \A i \in 1..Len(out) :
        SubsOverlapping(out[i]) # {} =>
            /\ out[i].start_time =
                   Min({subtitles[k].start_time : k \in SubsOverlapping(out[i])})
            /\ out[i].end_time =
                   Max({subtitles[k].end_time : k \in SubsOverlapping(out[i])})

\* a chunk whose span a subtitle only touches at its end, and not every
\* subtitle overlaps
C25_Witness ==
    /\ pc = "subs_done"
    /\ \E i \in 1..Len(out) :
           /\ Cardinality(SubsOverlapping(out[i])) >= 2
           /\ Cardinality(SubsOverlapping(out[i])) < Len(subtitles)
           /\ \E k \in SubsOverlapping(out[i]) :
                  /\ SubOffset(k) = out[i].end_pos
                  /\ out[i].end_time = subtitles[k].end_time
           /\ out[i].start_time > subtitles[1].start_time

\* the subtitle texts are normalized: clean_text leaves the joined text as it is
SubtitlesNormalized == clean_text(JoinTexts(subtitles)) = JoinTexts(subtitles)

\* where the text of the i-th chunk lies in the text it was cut from: at the
\* start of its slice, after the whitespace strip() removed
TrueOffset(i) ==
    Min({p \in chunks[i].from..(chunks[i].to - Len(chunks[i].text)) :
            Slice(text, p, p + Len(chunks[i].text)) = chunks[i].text})

\* the subtitles with a character in the text of the i-th chunk
SubsInChunk(i) ==
    {k \in 1..Len(subtitles) :
        /\ SubOffset(k) < TrueOffset(i) + Len(chunks[i].text)
        /\ SubOffset(k) + Len(subtitles[k].text) > TrueOffset(i)}

\* the span of the i-th chunk is where its text lies
C28_SpanIsTrueOffset ==
    SubtitlesNormalized =>
        \A i \in 1..Len(out) :
            chunks[i].text # <<>> =>
                /\ out[i].start_pos = TrueOffset(i)
                /\ out[i].end_pos = TrueOffset(i) + Len(chunks[i].text)

\* the times of the i-th chunk contain every subtitle with a character in it
C28_TimesContainText ==
    SubtitlesNormalized =>
        \A i \in 1..Len(out) :
            chunks[i].text # <<>> =>
                \A k \in SubsInChunk(i) :
                    /\ out[i].start_time <= subtitles[k].start_time
                    /\ subtitles[k].end_time <= out[i].end_time

\* C28: for normalized subtitle texts the span process_video_subtitles assigns
\* to a chunk is the offset of the chunk's text in the joined subtitle text,
\* and the chunk's [start_time, end_time] contains the times of every subtitle
\* that has a character in the chunk's text.
C28_SpanAndTimesOfText == C28_SpanIsTrueOffset /\ C28_TimesContainText

(***************************************************************************)
(* More properties of the cache                                            *)
(***************************************************************************)
\* C26: the entries of the cache are written once: no step of
\* generate_embeddings changes or removes the vector stored for a text.
C26_WriteOnce ==
    [][\A t \in DOMAIN cache : cache[t] # None => cache'[t] = cache[t]]_vars

\* C30: when store_embeddings has returned, two different chunks of its list
\* never carry the same vector_id, also when their texts are the same.
C30_DistinctVectorIds ==
    pc = "store_done" =>
        \A i, j \in 1..Len(stored) : i # j => stored[i].vector_id # stored[j].vector_id

(***************************************************************************)
(* ingest_channel and ingest_video (src/ingestion/ingest.py), with the     *)
(* session of get_db_session (src/utils/database.py) and the collection of *)
(* add_chunks_to_vector_store (src/retrieval/vector_store.py).             *)
(* A chunk is written by its text; its vector_id is the one store_embeddings*)
(* gives it.                                                               *)
(***************************************************************************)
MaxRuns == 2
MaxChunks == 2
Videos == {"v1", "v2"}

\* the lists of ids a channel gives: its videos, each once
VideoIdLists == {ids \in SeqsUpTo(Videos, Cardinality(Videos)) :
                    \A a, b \in 1..Len(ids) : a # b => ids[a] # ids[b]}

\* embedding.py line 295 for a chunk whose embedding is the vector of its text
ChunkVectorId(t) == VectorId(generate_dummy_embedding(t))

\* ingest.py lines 163-170: the row of the k-th chunk
TextChunkRow(v, cs, k) == [video_id |-> v, chunk_index |-> k - 1, vector_id |-> ChunkVectorId(cs[k])]

NewRows(v, cs) == {TextChunkRow(v, cs, k) : k \in 1..Len(cs)}

\* ingest.py lines 340-348: what the loop does when the call of ingest_video ends
AttemptEnds(result, at) ==
    /\ attempts' = Append(attempts, [video_id |-> video_id, result |-> result, at |-> at,
                                     flushed |-> flushed])
    /\ pc' = "channel_loop"

\* line 343: ingest_video returned
VideoReturned(result, at) ==
    /\ AttemptEnds(result, at)
    /\ success_count' = success_count + 1
    /\ UNCHANGED error_count

\* lines 344-345: ingest_video raised
VideoRaised(at) ==
    /\ AttemptEnds("raised", at)
    /\ error_count' = error_count + 1
    /\ UNCHANGED success_count

\* ingest_channel lines 296-338: the ids of the channel are listed
ChannelStart(ids) ==
    /\ pc \in {"channel_idle", "channel_done"}
    /\ runs < MaxRuns
    /\ runs' = runs + 1
    /\ video_ids' = ids
    /\ video_i' = 0
    /\ success_count' = 0
    /\ error_count' = 0
    /\ attempts' = <<>>
    /\ pc' = "channel_loop"
    /\ UNCHANGED <<video_id, chunks_with_embeddings, storeVars, notIngest>>

\* lines 340-342: the next id is taken and ingest_video is called
ChannelNext ==
    /\ pc = "channel_loop"
    /\ video_i < Len(video_ids)
    /\ video_i' = video_i + 1
    /\ video_id' = video_ids[video_i + 1]
    /\ chunks_with_embeddings' = <<>>
    /\ pc' = "iv_details"
    /\ UNCHANGED <<video_ids, success_count, error_count, attempts, runs, storeVars, notIngest>>

\* lines 350-351: the loop is over
ChannelEnd ==
    /\ pc = "channel_loop"
    /\ video_i = Len(video_ids)
    /\ pc' = "channel_done"
    /\ UNCHANGED <<ingestVars, notIngest>>

\* ingest_video line 65 with details
DetailsOk ==
    /\ pc = "iv_details"
    /\ pc' = "iv_prepare"
    /\ UNCHANGED <<ingestVars, notIngest>>

\* lines 65-68: get_video_details returned [] (youtube.py lines 115-117) and
\* ingest_video returns
DetailsEmpty ==
    /\ pc = "iv_details"
    /\ VideoReturned("no_details", "iv_details")
    /\ UNCHANGED <<video_ids, video_i, runs, video_id, chunks_with_embeddings, storeVars,
                   notIngest>>

\* lines 76-150: the metadata and the subtitles are stored, the chunks are made
\* and embedded
Prepare(cs) ==
    /\ pc = "iv_prepare"
    /\ chunks_with_embeddings' = cs
    /\ pc' = "iv_add"
    /\ UNCHANGED <<channelVars, video_id, storeVars, notIngest>>

\* lines 76-150 when a call raises (get_video_subtitles, transcribe_video, the
\* sessions of the metadata and of the subtitles)
PrepareRaise ==
    /\ pc = "iv_prepare"
    /\ VideoRaised("iv_prepare")
    /\ UNCHANGED <<video_ids, video_i, runs, video_id, chunks_with_embeddings, storeVars,
                   notIngest>>

\* vector_store.py lines 37, 46-52: the ids and the metadata given to the collection
AddedEntries(v, cs) == {[id |-> ChunkVectorId(cs[k]), source_id |-> v] : k \in 1..Len(cs)}

CollectionIds == {e.id : e \in collection}

\* ingest.py line 154, add_chunks_to_vector_store: the collection takes the
\* entries whose id it does not hold yet
IndexAdd ==
    /\ pc = "iv_add"
    /\ collection' = collection \cup
           {e \in AddedEntries(video_id, chunks_with_embeddings) : e.id \notin CollectionIds}
    /\ pc' = "iv_tx"
    /\ UNCHANGED <<channelVars, video_id, chunks_with_embeddings, text_chunks, tx_rows,
                   pending, flushed, notIngest>>

\* line 154 when collection.add raises
IndexAddRaise ==
    /\ pc = "iv_add"
    /\ chunks_with_embeddings # <<>>
    /\ VideoRaised("iv_add")
    /\ UNCHANGED <<video_ids, video_i, runs, video_id, chunks_with_embeddings, storeVars,
                   notIngest>>

\* lines 157-159 with the rows removed from the table at once
TxDelete_Autocommit ==
    /\ pc = "iv_tx"
    /\ text_chunks' = {r \in text_chunks : r.video_id # video_id}
    /\ tx_rows' = text_chunks'
    /\ pending' = <<>>
    /\ flushed' = 0
    /\ pc' = "iv_tx_add"
    /\ UNCHANGED <<channelVars, video_id, chunks_with_embeddings, collection, notIngest>>

\* lines 157-159: the session opens and the rows of the video are deleted in
\* its transaction
TxDelete ==
    /\ pc = "iv_tx"
    /\ tx_rows' = {r \in text_chunks : r.video_id # video_id}
    /\ pending' = <<>>
    /\ flushed' = 0
    /\ pc' = "iv_tx_add"
    /\ UNCHANGED <<channelVars, video_id, chunks_with_embeddings, text_chunks, collection,
                   notIngest>>

\* lines 162-171: a TextChunk is given to session.add for every chunk
TxAdd ==
    /\ pc = "iv_tx_add"
    /\ pending' = [k \in 1..Len(chunks_with_embeddings) |->
                      TextChunkRow(video_id, chunks_with_embeddings, k)]
    /\ pc' = "iv_commit"
    /\ UNCHANGED <<channelVars, video_id, chunks_with_embeddings, text_chunks, tx_rows,
                   flushed, collection, notIngest>>

\* database.py line 30, session.commit: the next pending row is inserted;
\* vector_id is unique (models.py line 90)
TxFlush ==
    /\ pc = "iv_commit"
    /\ pending # <<>>
    /\ \A r \in tx_rows : r.vector_id # Head(pending).vector_id
    /\ tx_rows' = tx_rows \cup {Head(pending)}
    /\ pending' = Tail(pending)
    /\ flushed' = flushed + 1
    /\ UNCHANGED <<channelVars, video_id, chunks_with_embeddings, text_chunks, collection, pc,
                   notIngest>>

\* database.py lines 30-33: the insert of the next pending row fails;
\* session.rollback and the exception goes on to ingest_channel
TxFlushFail ==
    /\ pc = "iv_commit"
    /\ pending # <<>>
    /\ tx_rows' = {}
    /\ pending' = <<>>
    /\ VideoRaised("iv_commit")
    /\ UNCHANGED <<video_ids, video_i, runs, video_id, chunks_with_embeddings, text_chunks,
                   flushed, collection, notIngest>>

\* database.py line 30 with every row inserted: the transaction commits;
\* ingest.py line 173, ingest_video returns
TxCommit ==
    /\ pc = "iv_commit"
    /\ pending = <<>>
    /\ text_chunks' = tx_rows
    /\ tx_rows' = {}
    /\ VideoReturned("completed", "iv_commit")
    /\ UNCHANGED <<video_ids, video_i, runs, video_id, chunks_with_embeddings, pending,
                   flushed, collection, notIngest>>

InitIngest ==
    /\ IngestIdle
    /\ pc = "channel_idle"
    /\ ChunkIdle
    /\ CleanIdle
    /\ SubsIdle
    /\ EmbedIdle
    /\ DummyIdle
    /\ CacheOpIdle
    /\ SearchIdle
    /\ FileIdle

NextIngest ==
    \/ \E ids \in VideoIdLists : ChannelStart(ids)
    \/ ChannelNext
    \/ ChannelEnd
    \/ DetailsOk
    \/ DetailsEmpty
    \/ \E cs \in SeqsUpTo(EmbedTexts, MaxChunks) : Prepare(cs)
    \/ PrepareRaise
    \/ IndexAdd
    \/ IndexAddRaise
    \/ TxDelete
    \/ TxAdd
    \/ TxFlush
    \/ TxFlushFail
    \/ TxCommit

SpecIngest == InitIngest /\ [][NextIngest]_vars

(***************************************************************************)
(* Properties of the ingestion                                             *)
(***************************************************************************)
Completed == {k \in 1..Len(attempts) : attempts[k].result = "completed"}

EveryIdAttemptedOnce ==
    /\ Len(attempts) = Len(video_ids)
    /\ \A k \in 1..Len(video_ids) : attempts[k].video_id = video_ids[k]

CountsAddUp == success_count + error_count = Len(video_ids)

OnlyCompletedSucceed ==
    /\ success_count = Cardinality(Completed)
    /\ error_count = Len(attempts) - Cardinality(Completed)

\* C22: when ingest_channel is over, every video id was attempted exactly once
\* whatever happened to the others, success_count + error_count is the number
\* of ids, and the videos counted as successes are the ones whose ingestion
\* completed: a video whose details could not be fetched is a failure.
C22_PerVideoFailures ==
    pc = "channel_done" => EveryIdAttemptedOnce /\ CountsAddUp /\ OnlyCompletedSucceed

RowsOf(v) == {r \in text_chunks : r.video_id = v}

\* C21: the committed rows of text_chunks change in one way only: the rows of
\* the video being ingested are replaced, all at once, by the rows of all its
\* new chunks; in every other step, a failed insert included, they stay as
\* they were.
C21_AtomicReplacement ==
    [][\/ text_chunks' = text_chunks
       \/ text_chunks' = (text_chunks \ RowsOf(video_id))
                             \cup NewRows(video_id, chunks_with_embeddings)]_vars

\* a replacement of stored chunks by other chunks failed after an insert, and
\* the old rows are all there
C21_Witness ==
    /\ pc = "channel_loop"
    /\ attempts # <<>>
    /\ attempts[Len(attempts)].result = "raised"
    /\ attempts[Len(attempts)].at = "iv_commit"
    /\ attempts[Len(attempts)].flushed >= 1
    /\ RowsOf(video_id) # {}
    /\ RowsOf(video_id) # NewRows(video_id, chunks_with_embeddings)

IndexIdsOf(v) == {e.id : e \in {c \in collection : c.source_id = v}}

RowIdsOf(v) == {r.vector_id : r \in RowsOf(v)}

\* C29: whenever no call of ingest_video is running, the vector ids the
\* collection holds for a video are the vector_id of the video's rows in
\* text_chunks.
C29_IndexMatchesRows ==
    pc \in {"channel_idle", "channel_loop", "channel_done"} =>
        \A v \in Videos : IndexIdsOf(v) = RowIdsOf(v)

(***************************************************************************)
(* get_cached_embedding and save_embedding_to_cache of several processes   *)
(* on the file of one text (src/processing/embedding.py lines 47-91).      *)
(* The file object of open(cache_file, 'w') hands the text json.dump       *)
(* writes to the file a buffer at a time, at the offset of its own         *)
(* descriptor; a vector is MaxBlocks buffers long.                         *)
(***************************************************************************)
MaxBlocks == 2
MaxSaves == 2
MaxReads == 2
Procs == {"p1", "p2"}
SharedText == "x"

\* a part of the file no write has filled
Hole == [of |-> None, k |-> 0]

\* json.dump(embedding, f), line 89: the text of the vector, in buffers
Dumped(v) == [k \in 1..MaxBlocks |-> [of |-> v, k |-> k]]

\* a list of numbers that is the text of no single vector
Mixed == [of |-> SharedText, by |-> "mixed", len |-> EMBEDDING_VECTOR_SIZE]

\* the content has the form of a list of numbers from its first to its last buffer
WellFormed(data) ==
    /\ Len(data) = MaxBlocks
    /\ \A k \in 1..Len(data) : data[k] # Hole /\ data[k].k = k

\* json.load(f), line 64: the vector when the content is the text of one; a
\* content put together from the texts of several vectors parses or not,
\* depending on their digits; every other content raises
Loaded(data) ==
    IF \E v \in StoredVectors(SharedText) : data = Dumped(v)
    THEN {data[1].of}
    ELSE IF WellFormed(data) THEN {Mixed, None} ELSE {None}

\* lines 87-88, open(cache_file, 'w'): the file is created or emptied
SaveOpen(p, v) ==
    /\ pc = "shared"
    /\ savers[p].state = "idle"
    /\ savers[p].calls < MaxSaves
    /\ cache_file' = [exists |-> TRUE, data |-> <<>>]
    /\ savers' = [savers EXCEPT ![p] = [state |-> "open", embedding |-> v, pos |-> 0,
                                        calls |-> savers[p].calls + 1]]
    /\ saved' = saved \cup {v}
    /\ UNCHANGED <<reads, pc, ingestVars, notFile>>

\* the content after a write of block b at offset pos: a write past the end
\* of the file leaves a hole
WrittenAt(data, pos, b) ==
    [k \in 1..(IF pos + 1 > Len(data) THEN pos + 1 ELSE Len(data)) |->
        IF k = pos + 1 THEN b ELSE IF k <= Len(data) THEN data[k] ELSE Hole]

\* line 89: the next buffer of the text is written at the offset of the file
SaveWrite(p) ==
    /\ pc = "shared"
    /\ savers[p].state = "open"
    /\ savers[p].pos < MaxBlocks
    /\ cache_file' = [exists |-> TRUE,
                      data |-> WrittenAt(cache_file.data, savers[p].pos,
                                         Dumped(savers[p].embedding)[savers[p].pos + 1])]
    /\ savers' = [savers EXCEPT ![p].pos = savers[p].pos + 1]
    /\ UNCHANGED <<saved, reads, pc, ingestVars, notFile>>

\* line 88: the with block ends and the file is closed
SaveClose(p) ==
    /\ pc = "shared"
    /\ savers[p].state = "open"
    /\ savers[p].pos = MaxBlocks
    /\ savers' = [savers EXCEPT ![p].state = "idle"]
    /\ UNCHANGED <<cache_file, saved, reads, pc, ingestVars, notFile>>

\* lines 58-73: the file is read if it exists; a content that does not parse
\* is None (lines 70-73)
GetCached(r) ==
    /\ pc = "shared"
    /\ Len(reads) < MaxReads
    /\ r \in (IF cache_file.exists THEN Loaded(cache_file.data) ELSE {None})
    /\ reads' = Append(reads, r)
    /\ UNCHANGED <<cache_file, savers, saved, pc, ingestVars, notFile>>

InitShared ==
    /\ cache_file = [exists |-> FALSE, data |-> <<>>]
    /\ savers = [p \in Procs |-> [state |-> "idle", embedding |-> None, pos |-> 0, calls |-> 0]]
    /\ saved = {}
    /\ reads = <<>>
    /\ pc = "shared"
    /\ ChunkIdle
    /\ CleanIdle
    /\ SubsIdle
    /\ EmbedIdle
    /\ DummyIdle
    /\ CacheOpIdle
    /\ SearchIdle
    /\ IngestIdle

NextShared ==
    \/ \E p \in Procs, v \in StoredVectors(SharedText) : SaveOpen(p, v)
    \/ \E p \in Procs : SaveWrite(p)
    \/ \E p \in Procs : SaveClose(p)
    \/ \E r \in {Mixed, None} \cup StoredVectors(SharedText) : GetCached(r)

SpecShared == InitShared /\ [][NextShared]_vars

NoSaveOpen == \A p \in Procs : savers[p].state = "idle"

====
